---- MODULE Spec2Model ----
(***************************************************************************)
(* Monitoring page of the AI vital-signs monitoring system, in its two     *)
(* variants: the simulator-driven page (src/unnamed/part_001) and the      *)
(* hardware-driven page (src/unnamed/part_000).                            *)
(*                                                                         *)
(* React state is modelled by the variables named like the useState cells  *)
(* (appState, vitals, ecgData1..3, analysisReport, ecgImages,              *)
(* isSerialConnected); useRef cells by the variables named like the refs.  *)
(* The values captured by the closures of the last committed render are    *)
(* kept in `rendered`: stopMonitoring is a useCallback over                *)
(* [appState, ecgData1], so its guard and the Lead-I window it sends are   *)
(* the rendered ones, not the latest ones.                                 *)
(*                                                                         *)
(* Rendering: a state update made inside a click handler is flushed        *)
(* synchronously at the end of the event (the handler and the render are   *)
(* one step); an update made from a timer callback or from the             *)
(* continuation of an await is rendered by a later task (action Render),   *)
(* before which a click or an already due timer may still run with the     *)
(* closures of the previous render.  The render task is queued at the      *)
(* time of the update, so it runs before any collaborator call settles     *)
(* and before time advances.                                               *)
(*                                                                         *)
(* Numbers: amplitudes, SpO2 and temperature are kept in thousandths       *)
(* (fixed-point grid); Math.random() is r / RandDen for r in 0..RandDen-1. *)
(* The sample label (Date.now()) of an EcgDataPoint is not modelled.       *)
(***************************************************************************)
EXTENDS Integers, Sequences, FiniteSets, TLC

VARIABLES
  variant,            \* "sim" (part_001) or "hw" (part_000)
  appState,           \* useState<AppState>
  vitals,             \* useState<VitalSigns>
  ecgData1, ecgData2, ecgData3,   \* useState<EcgDataPoint[]>, the uv values
  analysisReport,     \* useState<VitalAnalysis | null>
  ecgImages,          \* useState<(string | null)[]>
  isSerialConnected,  \* useState(false), hardware variant
  intervalRef,        \* useRef: the tick interval (simulator variant)
  timeoutRef,         \* useRef: the session timeout
  finalVitalsRef,     \* useRef<VitalSigns>
  ecgPatternIndexRef, \* useRef(0)
  arrhythmiaStateRef, \* useRef({type, index})
  beatVariationRef,   \* useRef({amplitude, beatLength})
  portRef, readerRef, \* useRef: serial port and stream reader
  portOpen,           \* the serial port opened by connectSerial is still open
  reading,            \* a readLoop is suspended in reader.read()
  rendered,           \* values captured by the closures of the last render
  dirty,              \* a state update is waiting for its render
  ecg1Changed,        \* ecgData1 was replaced since the last render
  pipe,               \* the running invocations of stopMonitoring
  clock,              \* time, in tick intervals (500 ms)
  startClock,         \* time of the render that entered MONITORING
  stopCancels,        \* stop invocations that cancelled a pending timer
  chunksRead,         \* chunks delivered by the device so far
  ttsAvailable,       \* ttsService.isTTSAvailable(), fixed for the page
  chartRefs,          \* ecgChartRef1..3.current is an element, fixed for the page
  gen,                \* a call of a signal generator taken on its own
  lineLog,            \* the device lines applied so far (line-level view)
  buffer,             \* readLoop: the text after the last newline (character-level view)
  stream,             \* the characters the device has delivered (character-level view)
  hiddenAgeOverride,  \* useState<number | null>, 0 standing for null
  pushed,             \* the calls of updateEcgData taken on their own: (lead, value)
  atStop,             \* history: the heart rate and Lead-I window when the session left MONITORING
  mail                \* the report view (part_003): sendStatus, its render, its requests

vars == <<variant, appState, vitals, ecgData1, ecgData2, ecgData3,
          analysisReport, ecgImages, isSerialConnected, intervalRef,
          timeoutRef, finalVitalsRef, ecgPatternIndexRef, arrhythmiaStateRef,
          beatVariationRef, portRef, readerRef, portOpen, reading, rendered, dirty,
          ecg1Changed, pipe, clock, startClock, stopCancels, chunksRead,
          ttsAvailable, chartRefs, gen, lineLog, buffer, stream,
          hiddenAgeOverride, pushed, atStop, mail>>

----------------------------------------------------------------------------
(* Bounds of the model *)

RandDen == 4          \* Math.random() takes the values r / RandDen
MaxClock == 5         \* simulator: time is explored up to this many tick intervals
MaxHwClock == 3       \* hardware: time is explored up to this many tick intervals
MaxStops == 2         \* invocations of stopMonitoring that pass its guard
MaxChunks == 1        \* chunks the device delivers

(* Configuration constants (./constants is not part of the sources; the     *)
(* values are small stand-ins for "externally supplied" configuration).    *)

ECG_DATA_LENGTH == 3
MONITORING_DURATION_TICKS == 2     \* MONITORING_DURATION_MS / 500 ms
ECG_PATTERN_1 == <<80, 45>>
ECG_PATTERN_2 == <<95, 40>>
ECG_PATTERN_3 == <<65, 55>>
PVC_PATTERN_1 == <<20, 90>>
PVC_PATTERN_2 == <<15, 95>>
PVC_PATTERN_3 == <<25, 85>>

VITAL_RANGES ==
  [heartRate   |-> [min |-> 60, max |-> 100],
   bloodSugar  |-> [min |-> 70, max |-> 110],
   spo2        |-> [min |-> 98000, max |-> 100000],
   temperature |-> [min |-> 97800, max |-> 99000]]

getBloodPressureRanges(age) ==
  IF age >= 10 /\ age <= 29
  THEN [systolic |-> [min |-> 139, max |-> 155], diastolic |-> [min |-> 78, max |-> 93]]
  ELSE [systolic |-> [min |-> 120, max |-> 142], diastolic |-> [min |-> 72, max |-> 88]]

----------------------------------------------------------------------------
(* Arithmetic helpers *)

Min2(a, b) == IF a < b THEN a ELSE b
Max2(a, b) == IF a > b THEN a ELSE b
RandDraws == 0 .. (RandDen - 1)

(* Math.round of n/d for d > 0: floor(n/d + 1/2) *)
RoundDiv(n, d) == (2 * n + d) \div (2 * d)

----------------------------------------------------------------------------
(* Signal generators (part_001).  r is the draw of Math.random().          *)

getRandomVital_FullStep(min, max, current, maxChange, r) ==
  IF current = 0
  THEN ((r * (max - min + 1)) \div RandDen) + min
  ELSE Max2(min, Min2(max,
         RoundDiv(current * RandDen + (2 * r - RandDen) * maxChange, RandDen)))

\* integers; change = (r/RandDen - 0.5) * maxChange
getRandomVital(min, max, current, maxChange, r) ==
  IF current = 0
  THEN ((r * (max - min + 1)) \div RandDen) + min
  ELSE Max2(min, Min2(max,
         RoundDiv(current * 2 * RandDen + (2 * r - RandDen) * maxChange, 2 * RandDen)))

getBloodPressureVital(min, max, current, maxChange, r) ==
  IF current = 0
  THEN ((r * (max - min + 1)) \div RandDen) + min
  ELSE Max2(min, Min2(max,
         RoundDiv(current * 2 * RandDen + (2 * r - RandDen) * maxChange, 2 * RandDen)))

getSpo2Vital_Wider(min, max, current, maxChange, r) ==
  IF current = 0
  THEN 98000
  ELSE Max2(min, Min2(max, current + ((2 * r - RandDen) * maxChange * 16) \div (2 * RandDen)))

\* thousandths; maxChange in thousandths; change = (r/RandDen - 0.5) * maxChange * 8
getSpo2Vital(min, max, current, maxChange, r) ==
  IF current = 0
  THEN 98000
  ELSE Max2(min, Min2(max, current + ((2 * r - RandDen) * maxChange * 8) \div (2 * RandDen)))

getTemperatureVital_NoClamp(min, max, current, maxChange, r) ==
  IF current = 0 THEN 100
  ELSE IF current < 10000 THEN 90000 + (r * 5000) \div RandDen
  ELSE IF current < 98000
       THEN Min2(current + (r * maxChange * 5) \div RandDen, 98000)
  ELSE current + ((2 * r - RandDen) * maxChange) \div (2 * RandDen)

\* thousandths; maxChange in thousandths
getTemperatureVital(min, max, current, maxChange, r) ==
  IF current = 0 THEN 100
  ELSE IF current < 10000 THEN 90000 + (r * 5000) \div RandDen
  ELSE IF current < 98000
       THEN Min2(current + (r * maxChange * 5) \div RandDen, 98000)
  ELSE Max2(min, Min2(max, current + ((2 * r - RandDen) * maxChange) \div (2 * RandDen)))

----------------------------------------------------------------------------
(* ECG windows *)

updateEcgData_NoEvict(currentData, value) == Append(currentData, value)

\* setter(currentData => [...currentData, value], dropping the oldest
\* sample once the length exceeds ECG_DATA_LENGTH)
updateEcgData(currentData, value) ==
  LET newData == Append(currentData, value)
  IN IF Len(newData) > ECG_DATA_LENGTH THEN Tail(newData) ELSE newData

initialEcg_Empty == <<>>

\* Array(ECG_DATA_LENGTH).fill({name: '0', uv: 50})
initialEcg == [i \in 1 .. ECG_DATA_LENGTH |-> 50000]

\* (val - 50) * amplitude + 50, amplitude in thousandths
applyVariation(val, amplitude) == (val - 50) * amplitude + 50000

ColdVitals ==
  [heartRate |-> 0, systolic |-> 0, diastolic |-> 0,
   bloodSugar |-> 0, spo2 |-> 0, temperature |-> 0]

----------------------------------------------------------------------------
(* One tick of the simulator: updateVitals (part_001).  d holds the draws  *)
(* of Math.random() made by the tick, one per call.                        *)

\* updateVitals is a useCallback with an empty dependency list: the age
\* override it reads is the one of the first render, null.
updateVitalsAge == 30

\* the updater passed to setVitals
nextVitals(prev, d) ==
  LET bpRanges == getBloodPressureRanges(updateVitalsAge)
  IN [heartRate   |-> getRandomVital(VITAL_RANGES.heartRate.min, VITAL_RANGES.heartRate.max,
                                     prev.heartRate, 2, d.hr),
      systolic    |-> getBloodPressureVital(bpRanges.systolic.min, bpRanges.systolic.max,
                                            prev.systolic, 3, d.sys),
      diastolic   |-> getBloodPressureVital(bpRanges.diastolic.min, bpRanges.diastolic.max,
                                            prev.diastolic, 2, d.dia),
      bloodSugar  |-> getRandomVital(VITAL_RANGES.bloodSugar.min, VITAL_RANGES.bloodSugar.max,
                                     prev.bloodSugar, 4, d.sugar),
      spo2        |-> getSpo2Vital(VITAL_RANGES.spo2.min, VITAL_RANGES.spo2.max,
                                   prev.spo2, 500, d.spo2),
      temperature |-> getTemperatureVital(VITAL_RANGES.temperature.min,
                                          VITAL_RANGES.temperature.max,
                                          prev.temperature, 100, d.temp)]

beatStart_AnyPosition(idx, arr, beat, d) ==
  IF arr.type = "none" /\ 10 * d.pvc < RandDen
  THEN [arr |-> [type |-> "pvc", index |-> 0], beat |-> beat]
  ELSE IF idx = 0 /\ arr.type = "none"
  THEN [arr |-> arr,
        beat |-> [amplitude  |-> 1000 + ((2 * d.amp - RandDen) * 100) \div (2 * RandDen),
                  beatLength |-> Len(ECG_PATTERN_1) + (d.len * 3) \div RandDen]]
  ELSE [arr |-> arr, beat |-> beat]

beatStart_RedrawAlways(idx, arr, beat, d) ==
  IF arr.type = "none"
  THEN IF idx = 0 /\ 10 * d.pvc < RandDen
       THEN [arr |-> [type |-> "pvc", index |-> 0], beat |-> beat]
       ELSE [arr |-> arr,
             beat |-> [amplitude  |-> 1000 + ((2 * d.amp - RandDen) * 100) \div (2 * RandDen),
                       beatLength |-> Len(ECG_PATTERN_1) + (d.len * 3) \div RandDen]]
  ELSE [arr |-> arr, beat |-> beat]

beatStart_Retrigger(idx, arr, beat, d) ==
  IF idx = 0 /\ 10 * d.pvc < RandDen
  THEN [arr |-> [type |-> "pvc", index |-> 0], beat |-> beat]
  ELSE [arr |-> arr, beat |-> beat]

\* beat start: trigger a PVC (Math.random() < 0.1) or redraw the variation
beatStart(idx, arr, beat, d) ==
  IF idx = 0 /\ arr.type = "none"
  THEN IF 10 * d.pvc < RandDen
       THEN [arr |-> [type |-> "pvc", index |-> 0], beat |-> beat]
       ELSE [arr |-> arr,
             beat |-> [amplitude  |-> 1000 + ((2 * d.amp - RandDen) * 100) \div (2 * RandDen),
                       beatLength |-> Len(ECG_PATTERN_1) + (d.len * 3) \div RandDen]]
  ELSE [arr |-> arr, beat |-> beat]

ecgTick_BaseLength(idx, arr0, beat0, d) ==
  LET b    == beatStart(idx, arr0, beat0, d)
      arr  == b.arr
      beat == b.beat
  IN IF arr.type = "pvc"
     THEN LET pvcIndex == arr.index
              newIndex == pvcIndex + 1
          IN [s1 |-> PVC_PATTERN_1[pvcIndex + 1] * 1000,
              s2 |-> PVC_PATTERN_2[pvcIndex + 1] * 1000,
              s3 |-> PVC_PATTERN_3[pvcIndex + 1] * 1000,
              arr |-> IF newIndex >= Len(PVC_PATTERN_1)
                      THEN [type |-> "none", index |-> 0]
                      ELSE [type |-> "pvc", index |-> newIndex],
              idx |-> IF newIndex >= Len(PVC_PATTERN_1) THEN 0 ELSE idx,
              beat |-> beat]
     ELSE LET normalIndex == idx
              pause == normalIndex >= Len(ECG_PATTERN_1)
          IN [s1 |-> IF pause THEN 50000
                     ELSE applyVariation(ECG_PATTERN_1[normalIndex + 1], beat.amplitude),
              s2 |-> IF pause THEN 50000
                     ELSE applyVariation(ECG_PATTERN_2[normalIndex + 1], beat.amplitude),
              s3 |-> IF pause THEN 50000
                     ELSE applyVariation(ECG_PATTERN_3[normalIndex + 1], beat.amplitude),
              arr |-> arr,
              idx |-> (normalIndex + 1) % Len(ECG_PATTERN_1),
              beat |-> beat]

\* the ECG part of updateVitals: the three samples and the new refs
ecgTick(idx, arr0, beat0, d) ==
  LET b    == beatStart(idx, arr0, beat0, d)
      arr  == b.arr
      beat == b.beat
  IN IF arr.type = "pvc"
     THEN LET pvcIndex == arr.index
              newIndex == pvcIndex + 1
          IN [s1 |-> PVC_PATTERN_1[pvcIndex + 1] * 1000,
              s2 |-> PVC_PATTERN_2[pvcIndex + 1] * 1000,
              s3 |-> PVC_PATTERN_3[pvcIndex + 1] * 1000,
              arr |-> IF newIndex >= Len(PVC_PATTERN_1)
                      THEN [type |-> "none", index |-> 0]
                      ELSE [type |-> "pvc", index |-> newIndex],
              idx |-> IF newIndex >= Len(PVC_PATTERN_1) THEN 0 ELSE idx,
              beat |-> beat]
     ELSE LET normalIndex == idx
              pause == normalIndex >= Len(ECG_PATTERN_1)
          IN [s1 |-> IF pause THEN 50000
                     ELSE applyVariation(ECG_PATTERN_1[normalIndex + 1], beat.amplitude),
              s2 |-> IF pause THEN 50000
                     ELSE applyVariation(ECG_PATTERN_2[normalIndex + 1], beat.amplitude),
              s3 |-> IF pause THEN 50000
                     ELSE applyVariation(ECG_PATTERN_3[normalIndex + 1], beat.amplitude),
              arr |-> arr,
              idx |-> IF beat.beatLength > 0
                      THEN (normalIndex + 1) % beat.beatLength
                      ELSE (normalIndex + 1) % Len(ECG_PATTERN_1),
              beat |-> beat]

\* draws explored by the session model: a tick that triggers a PVC at a beat
\* start, and two ticks that do not (low draws without a pause tick, high
\* draws with one pause tick)
DrawOf(v, p, a, l) ==
  [hr |-> v, sys |-> v, dia |-> v, sugar |-> v, spo2 |-> v, temp |-> v,
   pvc |-> p, amp |-> a, len |-> l]
TickDraws ==
  {DrawOf(1, 0, 0, 0),
   DrawOf(1, RandDen - 1, 0, 0),
   DrawOf(RandDen - 1, RandDen - 1, RandDen - 1, 2)}

----------------------------------------------------------------------------
(* Timers.  A ref holds null, the id of a pending timer (with its due      *)
(* time) or the id of a timer that has fired or was cleared.               *)

NullRef == [st |-> "null", due |-> 0]
DeadRef == [st |-> "dead", due |-> 0]
LiveRef(t) == [st |-> "live", due |-> t]

\* if (ref.current) clearTimeout(ref.current)
ClearTimer(ref) == IF ref.st = "live" THEN DeadRef ELSE ref

----------------------------------------------------------------------------
(* Rendering and the timer effect *)

\* useCallback deps of stopMonitoring are [appState, ecgData1]; the effect
\* depends on [appState, stopMonitoring, updateVitals] (part_001) and on
\* [appState, stopMonitoring, isSerialConnected] (part_000)
EffectDepsChanged(as, changed, conn) ==
  \/ rendered.appState # as
  \/ changed
  \/ (variant = "hw" /\ rendered.isSerialConnected # conn)

EffectInterval_Unguarded(as, iref) ==
  IF variant = "sim" THEN LiveRef(clock + 1) ELSE ClearTimer(iref)

\* the effect body, run after the cleanup of the previous effect
EffectInterval(as, iref) ==
  IF as = "MONITORING" /\ variant = "sim" THEN LiveRef(clock + 1) ELSE ClearTimer(iref)

EffectTimeout(as, tref) ==
  IF as = "MONITORING" THEN LiveRef(clock + MONITORING_DURATION_TICKS) ELSE ClearTimer(tref)

\* commit a render of the state (as, e1, conn), the refs being iref, tref
Commit(as, e1, conn, changed, iref, tref) ==
  /\ rendered' = [appState |-> as, ecgData1 |-> e1, isSerialConnected |-> conn]
  /\ dirty' = FALSE
  /\ ecg1Changed' = FALSE
  /\ IF EffectDepsChanged(as, changed, conn)
     THEN /\ intervalRef' = EffectInterval(as, iref)
          /\ timeoutRef' = EffectTimeout(as, tref)
     ELSE /\ intervalRef' = iref
          /\ timeoutRef' = tref
  /\ startClock' = IF as = "MONITORING" /\ rendered.appState # "MONITORING"
                   THEN clock ELSE startClock

\* leave the update to a later render
Defer(changed, iref, tref) ==
  /\ dirty' = TRUE
  /\ ecg1Changed' = (ecg1Changed \/ changed)
  /\ intervalRef' = iref
  /\ timeoutRef' = tref
  /\ UNCHANGED <<rendered, startClock>>

\* before the first stop of a session; the report view before it is shown
NotStopped == [left |-> FALSE, heartRate |-> 0, ecgData1 |-> <<>>]
Unmounted == [sendStatus |-> "idle", shown |-> "idle", requests |-> <<>>,
              report |-> "", email |-> "", ecgImages |-> <<>>]

aside == <<buffer, stream, hiddenAgeOverride, pushed, mail>>
env == <<variant, ttsAvailable, chartRefs, gen, lineLog, aside, atStop>>
renderFrame == <<intervalRef, timeoutRef, rendered, dirty, ecg1Changed, startClock>>

Render ==
  /\ dirty
  /\ Commit(appState, ecgData1, isSerialConnected, ecg1Changed, intervalRef, timeoutRef)
  /\ UNCHANGED <<env, appState, vitals, ecgData1, ecgData2, ecgData3,
                 analysisReport, ecgImages, isSerialConnected, finalVitalsRef,
                 ecgPatternIndexRef, arrhythmiaStateRef, beatVariationRef,
                 portRef, readerRef, portOpen, reading, pipe, clock, stopCancels,
                 chunksRead>>

----------------------------------------------------------------------------
(* The analysis report *)

\* Number.prototype.toString of a non-negative integer: its decimal digits
RECURSIVE toString(_)
toString(n) == IF n < 10 THEN <<n>> ELSE Append(toString(n \div 10), n % 10)

\* Number.prototype.toFixed(1) of a value given in thousandths
toFixed1(x) ==
  LET tenths == RoundDiv(x, 100)
  IN [int |-> toString(tenths \div 10), frac |-> tenths % 10]

NoReport == [kind |-> "null"]

\* results of getHubertEcgAnalysis
HubertStatusError ==
  [kind |-> "error", error |-> "Failed to get analysis from HuBERT-ECG backend",
   mock_diagnosis |-> "", mock_recommendation |-> ""]
HubertConnectError ==
  [kind |-> "error", error |-> "Could not connect to the HuBERT-ECG analysis service.",
   mock_diagnosis |-> "", mock_recommendation |-> ""]
\* bodies a successful response can carry ("" stands for an absent field)
JsonBodies ==
  {[kind |-> "json", error |-> "", mock_diagnosis |-> "Normal Sinus Rhythm",
    mock_recommendation |-> "Routine follow-up"],
   [kind |-> "json", error |-> "", mock_diagnosis |-> "", mock_recommendation |-> ""]}

OrElse_NoFallback(a, b) == a

\* a || b on strings
OrElse(a, b) == IF a = "" THEN b ELSE a

combinedReport(fv, hubertReport) ==
  [kind |-> "report",
   overall_assessment |-> "AI Assessment based on HuBERT-ECG Analysis.",
   heart_rate |-> toString(fv.heartRate),
   blood_pressure |-> [systolic |-> toString(fv.systolic), diastolic |-> toString(fv.diastolic)],
   blood_sugar |-> toString(fv.bloodSugar),
   spo2 |-> toFixed1(fv.spo2),
   temperature |-> toFixed1(fv.temperature),
   potential_diagnosis |-> OrElse(hubertReport.mock_diagnosis, "Awaiting advanced analysis."),
   recommendations |-> <<OrElse(hubertReport.mock_recommendation, "Consult healthcare professional")>>,
   hubert_ecg_analysis |-> hubertReport]

----------------------------------------------------------------------------
(* Invocations of stopMonitoring.  pipe[p] is the p-th invocation that     *)
(* passed the guard: pc is the await it is suspended at, ecg the Lead-I    *)
(* window of its closure, req the inference request it sent, cap the       *)
(* three chart captures.                                                   *)

Pipes == 1 .. MaxStops
Leads == 1 .. 3

NoRequest == [sent |-> FALSE, ecg_signal |-> <<>>, heart_rate |-> 0]
IdlePipe == [pc |-> "idle", ecg |-> <<>>, req |-> NoRequest,
             cap |-> [i \in Leads |-> "none"]]

\* chart elements found by captureImage (ref.current non-null)
RefPresence == {<<TRUE, TRUE, TRUE>>, <<TRUE, FALSE, TRUE>>}

\* outcomes of toPng explored by the session model: the capture of the
\* Lead-III chart may throw (null), the other two succeed
ThrowingCharts == {3}
CaptureOutcomes(i) == IF i \in ThrowingCharts THEN {"png", "null"} ELSE {"png"}

\* getHubertEcgAnalysis(ecgData1, finalVitalsRef.current.heartRate) up to fetch
SendRequest(pr) ==
  [pr EXCEPT !.pc = "fetch",
             !.req = [sent |-> TRUE, ecg_signal |-> pr.ecg,
                      heart_rate |-> finalVitalsRef.heartRate]]

Join_DropNull(p, pr) ==
  /\ ecgImages' = SelectSeq(<<pr.cap[1], pr.cap[2], pr.cap[3]>>,
                          LAMBDA img : img # "null")
  /\ appState' = "COMPLETE"
  /\ pipe' = [pipe EXCEPT ![p] = [pr EXCEPT !.pc = IF ttsAvailable THEN "tts2" ELSE "done",
                                            !.cap = [i \in Leads |-> "none"]]]

Join_NoComplete(p, pr) ==
  /\ ecgImages' = <<pr.cap[1], pr.cap[2], pr.cap[3]>>
  /\ appState' = appState
  /\ pipe' = [pipe EXCEPT ![p] = [pr EXCEPT !.pc = IF ttsAvailable THEN "tts2" ELSE "done",
                                            !.cap = [i \in Leads |-> "none"]]]

\* setEcgImages(images); setAppState('COMPLETE'); the closing announcement
Join(p, pr) ==
  /\ ecgImages' = <<pr.cap[1], pr.cap[2], pr.cap[3]>>
  /\ appState' = "COMPLETE"
  /\ pipe' = [pipe EXCEPT ![p] = [pr EXCEPT !.pc = IF ttsAvailable THEN "tts2" ELSE "done",
                                            !.cap = [i \in Leads |-> "none"]]]

\* from the inference result to Promise.all over the three captures
Assemble(p, hubertReport) ==
  /\ analysisReport' = combinedReport(finalVitalsRef, hubertReport)
  /\ Defer(FALSE, intervalRef, timeoutRef)
  /\ LET present == chartRefs
           pr == [pipe[p] EXCEPT !.cap = [i \in Leads |->
                                   IF present[i] THEN "pending" ELSE "null"]]
       IN IF \E i \in Leads : present[i]
          THEN /\ pipe' = [pipe EXCEPT ![p] = [pr EXCEPT !.pc = "capture"]]
               /\ UNCHANGED <<ecgImages, appState>>
          ELSE Join(p, pr)

simRefs == <<ecgPatternIndexRef, arrhythmiaStateRef, beatVariationRef>>
serial == <<portRef, readerRef, portOpen, reading, isSerialConnected>>
windows == <<ecgData1, ecgData2, ecgData3>>

\* the body of stopMonitoring, run with the closure of the last render;
\* next is the state it sets before its first await
stopMonitoringTo(tref, next) ==
  /\ stopCancels' = IF intervalRef.st = "live" \/ tref.st = "live"
                    THEN stopCancels + 1 ELSE stopCancels
  /\ IF rendered.appState # "MONITORING"
     THEN UNCHANGED <<appState, pipe>>
     ELSE /\ appState' = next
          /\ \E p \in Pipes :
               /\ pipe[p].pc = "idle"
               /\ \A q \in Pipes : q < p => pipe[q].pc # "idle"
               /\ LET pr == [pipe[p] EXCEPT !.ecg = rendered.ecgData1]
                  IN pipe' = [pipe EXCEPT ![p] =
                                IF ttsAvailable THEN [pr EXCEPT !.pc = "tts1"]
                                ELSE SendRequest(pr)]
  /\ atStop' = IF appState = "MONITORING" /\ appState' # "MONITORING"
               THEN [left |-> TRUE, heartRate |-> finalVitalsRef.heartRate,
                     ecgData1 |-> ecgData1]
               ELSE atStop
  /\ UNCHANGED <<variant, ttsAvailable, chartRefs, gen, lineLog, aside,
                 vitals, windows, analysisReport, ecgImages,
                 finalVitalsRef, simRefs, serial, clock, chunksRead>>

stopMonitoringBody_Bypass(tref) == stopMonitoringTo(tref, "COMPLETE")
stopMonitoringBody(tref) == stopMonitoringTo(tref, "ANALYZING")

\* the "Stop & Analyze" button, offered by the render of MONITORING
stopMonitoring ==
  /\ rendered.appState = "MONITORING"
  /\ stopMonitoringBody(timeoutRef)
  /\ Commit(appState', ecgData1, isSerialConnected, ecg1Changed, NullRef, NullRef)

\* expiry of the session timeout armed by the effect
sessionTimeout ==
  /\ timeoutRef.st = "live"
  /\ timeoutRef.due <= clock
  /\ stopMonitoringBody(DeadRef)
  /\ Defer(FALSE, NullRef, NullRef)

pipeFrame == <<env, vitals, windows, finalVitalsRef, simRefs, serial,
               clock, stopCancels, chunksRead>>

\* the opening announcement settles (resolves or throws)
ttsSettle(p) ==
  /\ ~dirty
  /\ pipe[p].pc = "tts1"
  /\ pipe' = [pipe EXCEPT ![p] = SendRequest(pipe[p])]
  /\ UNCHANGED <<appState, analysisReport, ecgImages>>
  /\ UNCHANGED renderFrame
  /\ UNCHANGED pipeFrame

\* fetch settles: it rejects, or answers with a non-OK or an OK status
fetchSettle(p) ==
  /\ ~dirty
  /\ pipe[p].pc = "fetch"
  /\ \E outcome \in {"reject", "notok", "ok"} :
       CASE outcome = "reject" -> Assemble(p, HubertConnectError)
         [] outcome = "notok"  -> Assemble(p, HubertStatusError)
         [] outcome = "ok"     -> /\ pipe' = [pipe EXCEPT ![p].pc = "json"]
                                  /\ UNCHANGED <<appState, analysisReport, ecgImages>>
                                  /\ UNCHANGED renderFrame
  /\ UNCHANGED pipeFrame

\* response.json() settles: a body, or a parse error caught by the catch
jsonSettle(p) ==
  /\ ~dirty
  /\ pipe[p].pc = "json"
  /\ \/ \E body \in JsonBodies : Assemble(p, body)
     \/ Assemble(p, HubertConnectError)
  /\ UNCHANGED pipeFrame

\* toPng settles for one chart: an image, or an error turned into null
captureSettle(p, i) ==
  /\ ~dirty
  /\ pipe[p].pc = "capture"
  /\ pipe[p].cap[i] = "pending"
  /\ \E img \in CaptureOutcomes(i) :
       LET pr == [pipe[p] EXCEPT !.cap[i] = img]
       IN IF \E j \in Leads : pr.cap[j] = "pending"
          THEN /\ pipe' = [pipe EXCEPT ![p] = pr]
               /\ UNCHANGED <<appState, ecgImages>>
               /\ UNCHANGED renderFrame
          ELSE /\ Join(p, pr)
               /\ Defer(FALSE, intervalRef, timeoutRef)
  /\ UNCHANGED analysisReport
  /\ UNCHANGED pipeFrame

\* the closing announcement settles
tts2Settle(p) ==
  /\ ~dirty
  /\ pipe[p].pc = "tts2"
  /\ pipe' = [pipe EXCEPT ![p].pc = "done"]
  /\ UNCHANGED <<appState, analysisReport, ecgImages>>
  /\ UNCHANGED renderFrame
  /\ UNCHANGED pipeFrame

----------------------------------------------------------------------------
(* Session start and the simulator tick *)

\* the "Start Monitoring" button, offered by the render of READY (and, in
\* the hardware variant, enabled only when the render shows a connection)
handleStart ==
  /\ rendered.appState = "READY"
  /\ variant = "hw" => rendered.isSerialConnected
  /\ analysisReport' = NoReport
  /\ ecgImages' = <<>>
  /\ vitals' = ColdVitals
  /\ ecgData1' = initialEcg
  /\ ecgData2' = initialEcg
  /\ ecgData3' = initialEcg
  /\ IF variant = "sim"
     THEN /\ ecgPatternIndexRef' = 0
          /\ arrhythmiaStateRef' = [type |-> "none", index |-> 0]
     ELSE UNCHANGED <<ecgPatternIndexRef, arrhythmiaStateRef>>
  /\ appState' = "MONITORING"
  /\ Commit("MONITORING", initialEcg, isSerialConnected, TRUE, intervalRef, timeoutRef)
  /\ UNCHANGED <<env, finalVitalsRef, beatVariationRef, serial, pipe, clock,
                 stopCancels, chunksRead>>

\* one firing of the tick interval, its draws taken from the set draws
updateVitalsWith(draws) ==
  /\ intervalRef.st = "live"
  /\ intervalRef.due <= clock
  /\ \E d \in draws :
       LET newVitals == nextVitals(vitals, d)
           e == ecgTick(ecgPatternIndexRef, arrhythmiaStateRef, beatVariationRef, d)
       IN /\ vitals' = newVitals
          /\ finalVitalsRef' = newVitals
          /\ ecgData1' = updateEcgData(ecgData1, e.s1)
          /\ ecgData2' = updateEcgData(ecgData2, e.s2)
          /\ ecgData3' = updateEcgData(ecgData3, e.s3)
          /\ ecgPatternIndexRef' = e.idx
          /\ arrhythmiaStateRef' = e.arr
          /\ beatVariationRef' = e.beat
  /\ Defer(TRUE, LiveRef(intervalRef.due + 1), timeoutRef)
  /\ UNCHANGED <<env, appState, analysisReport, ecgImages, serial, pipe,
                 clock, stopCancels, chunksRead>>

\* one firing of the tick interval: updateVitals
updateVitals == updateVitalsWith(TickDraws)

\* the same tick with every draw of the beat logic (PVC trigger, amplitude,
\* beat length), the draws of the vital signs being fixed
BeatDraws ==
  {DrawOf(1, p, a, l) : p \in {0, RandDen - 1}, a \in RandDraws, l \in RandDraws}

updateVitalsAnyBeat == updateVitalsWith(BeatDraws)

\* time passes: no render is waiting and every due timer has fired
Advance ==
  /\ ~dirty
  /\ clock < (IF variant = "sim" THEN MaxClock ELSE MaxHwClock)
  /\ intervalRef.st = "live" \/ timeoutRef.st = "live"
  /\ intervalRef.st = "live" => intervalRef.due > clock
  /\ timeoutRef.st = "live" => timeoutRef.due > clock
  /\ clock' = clock + 1
  /\ UNCHANGED <<env, appState, vitals, windows, analysisReport, ecgImages,
                 finalVitalsRef, simRefs, serial, pipe, stopCancels, chunksRead>>
  /\ UNCHANGED renderFrame

----------------------------------------------------------------------------
(* Hardware ingestion (part_000).  A parsed line is a record of the fields *)
(* it carries; spo2, temperature and the ECG amplitudes are written in     *)
(* thousandths.                                                            *)

Has(data, k) == k \in DOMAIN data

\* a line JSON.parse rejects
Malformed == [malformed |-> TRUE]

mergeVitals_Reset(prev, data) ==
  [heartRate   |-> IF Has(data, "hr") THEN data.hr
                   ELSE IF Has(data, "heartRate") THEN data.heartRate ELSE 0,
   systolic    |-> IF Has(data, "systolic") THEN data.systolic
                   ELSE IF Has(data, "bp") /\ Len(data.bp) >= 1 THEN data.bp[1] ELSE 0,
   diastolic   |-> IF Has(data, "diastolic") THEN data.diastolic
                   ELSE IF Has(data, "bp") /\ Len(data.bp) >= 2 THEN data.bp[2] ELSE 0,
   spo2        |-> IF Has(data, "spo2") THEN data.spo2
                   ELSE IF Has(data, "oxygen") THEN data.oxygen ELSE 0,
   temperature |-> IF Has(data, "temp") THEN data.temp
                   ELSE IF Has(data, "temperature") THEN data.temperature ELSE 0,
   bloodSugar  |-> IF Has(data, "glucose") THEN data.glucose
                   ELSE IF Has(data, "bloodSugar") THEN data.bloodSugar ELSE 0]

\* the updater passed to setVitals: a ?? b ?? prev
mergeVitals(prev, data) ==
  [heartRate   |-> IF Has(data, "hr") THEN data.hr
                   ELSE IF Has(data, "heartRate") THEN data.heartRate
                   ELSE prev.heartRate,
   systolic    |-> IF Has(data, "systolic") THEN data.systolic
                   ELSE IF Has(data, "bp") /\ Len(data.bp) >= 1 THEN data.bp[1]
                   ELSE prev.systolic,
   diastolic   |-> IF Has(data, "diastolic") THEN data.diastolic
                   ELSE IF Has(data, "bp") /\ Len(data.bp) >= 2 THEN data.bp[2]
                   ELSE prev.diastolic,
   spo2        |-> IF Has(data, "spo2") THEN data.spo2
                   ELSE IF Has(data, "oxygen") THEN data.oxygen
                   ELSE prev.spo2,
   temperature |-> IF Has(data, "temp") THEN data.temp
                   ELSE IF Has(data, "temperature") THEN data.temperature
                   ELSE prev.temperature,
   bloodSugar  |-> IF Has(data, "glucose") THEN data.glucose
                   ELSE IF Has(data, "bloodSugar") THEN data.bloodSugar
                   ELSE prev.bloodSugar]

\* the body of the for loop of readLoop for one line
applyLine(s, line) ==
  IF Has(line, "malformed") THEN s
  ELSE LET updated == mergeVitals(s.vitals, line)
       IN [vitals |-> updated,
           fv |-> updated,
           e1 |-> IF Has(line, "ecg") THEN updateEcgData(s.e1, line.ecg) ELSE s.e1,
           e2 |-> IF Has(line, "ecg2") THEN updateEcgData(s.e2, line.ecg2) ELSE s.e2,
           e3 |-> IF Has(line, "ecg3") THEN updateEcgData(s.e3, line.ecg3) ELSE s.e3,
           c1 |-> s.c1 \/ Has(line, "ecg")]

RECURSIVE applyLines_Abort(_, _)
applyLines_Abort(s, lines) ==
  IF lines = <<>> \/ Has(Head(lines), "malformed") THEN s
  ELSE applyLines_Abort(applyLine(s, Head(lines)), Tail(lines))

RECURSIVE applyLines(_, _)
applyLines(s, lines) ==
  IF lines = <<>> THEN s ELSE applyLines(applyLine(s, Head(lines)), Tail(lines))

\* chunks explored by the session model
HwChunks ==
  {<<[hr |-> 72, ecg |-> 55000], [bp |-> <<120, 80>>]>>,
   <<Malformed, [ecg |-> 55000, ecg2 |-> 55000, ecg3 |-> 55000]>>,
   <<[spo2 |-> 97000, temp |-> 98600]>>}

\* "Connect USB Device": requestPort / open succeed or throw
connectSerial ==
  /\ variant = "hw"
  /\ rendered.appState = "READY"
  /\ ~rendered.isSerialConnected
  /\ ~reading
  /\ \E ok \in BOOLEAN :
       IF ok
       THEN /\ portRef' = "port"
            /\ readerRef' = "reader"
            /\ portOpen' = TRUE
            /\ isSerialConnected' = TRUE
            /\ reading' = TRUE
       ELSE /\ isSerialConnected' = FALSE
            /\ UNCHANGED <<portRef, readerRef, portOpen, reading>>
  /\ Defer(FALSE, intervalRef, timeoutRef)
  /\ UNCHANGED <<env, appState, vitals, windows, analysisReport, ecgImages,
                 finalVitalsRef, simRefs, pipe, clock, stopCancels, chunksRead>>

\* reader.read() resolves with a chunk of complete lines
readLoop ==
  /\ reading
  /\ chunksRead < MaxChunks
  /\ chunksRead' = chunksRead + 1
  /\ \E chunk \in HwChunks :
       LET s == applyLines([vitals |-> vitals, fv |-> finalVitalsRef, e1 |-> ecgData1,
                            e2 |-> ecgData2, e3 |-> ecgData3, c1 |-> FALSE], chunk)
       IN /\ vitals' = s.vitals
          /\ finalVitalsRef' = s.fv
          /\ ecgData1' = s.e1
          /\ ecgData2' = s.e2
          /\ ecgData3' = s.e3
          /\ Defer(s.c1, intervalRef, timeoutRef)
  /\ UNCHANGED <<env, appState, analysisReport, ecgImages, ecgPatternIndexRef,
                 arrhythmiaStateRef, beatVariationRef, serial, pipe, clock, stopCancels>>

\* reader.read() resolves with done: releaseLock and leave the loop
readDone ==
  /\ reading
  /\ reading' = FALSE
  /\ UNCHANGED <<env, appState, vitals, windows, analysisReport, ecgImages,
                 finalVitalsRef, simRefs, portRef, readerRef, portOpen,
                 isSerialConnected, pipe, clock, stopCancels, chunksRead>>
  /\ UNCHANGED renderFrame

\* reader.read() rejects: the catch of readLoop
readError ==
  /\ reading
  /\ reading' = FALSE
  /\ isSerialConnected' = FALSE
  /\ Defer(FALSE, intervalRef, timeoutRef)
  /\ UNCHANGED <<env, appState, vitals, windows, analysisReport, ecgImages,
                 finalVitalsRef, simRefs, portRef, readerRef, portOpen, pipe, clock,
                 stopCancels, chunksRead>>

\* outcomes of the try block of disconnectSerial: reader.cancel() rejects
\* (always so once the read loop has left the reader released or errored),
\* or it resolves and port.close() rejects, or both resolve
DisconnectOutcomes ==
  IF reading THEN {"cancelFails", "closeFails", "closed"} ELSE {"cancelFails"}

\* "Hardware Connected": cancel the reader, close the port, clear the refs
disconnectSerial ==
  /\ variant = "hw"
  /\ rendered.appState = "READY"
  /\ rendered.isSerialConnected
  /\ \E outcome \in DisconnectOutcomes :
       /\ reading' = IF outcome = "cancelFails" THEN reading ELSE FALSE
       /\ portOpen' = IF outcome = "closed" THEN FALSE ELSE portOpen
  /\ isSerialConnected' = FALSE
  /\ portRef' = "null"
  /\ readerRef' = "null"
  /\ Defer(FALSE, intervalRef, timeoutRef)
  /\ UNCHANGED <<env, appState, vitals, windows, analysisReport, ecgImages,
                 finalVitalsRef, simRefs, pipe, clock, stopCancels, chunksRead>>

----------------------------------------------------------------------------
(* The signal generators taken on their own: gen records one call (its     *)
(* arguments, the draw of Math.random() and the result).  The arguments    *)
(* are those updateVitals can pass: the current value of a clamped vital   *)
(* is 0 or lies in its range, maxChange is the step of the call site or a  *)
(* neighbour of it.                                                        *)

NoCall == [fn |-> "none", min |-> 0, max |-> 0, current |-> 0, maxChange |-> 0,
           r |-> 0, result |-> 0, reached |-> FALSE, outcome |-> "none"]

Call(fn, min, max, current, maxChange, r, result) ==
  [fn |-> fn, min |-> min, max |-> max, current |-> current, maxChange |-> maxChange,
   r |-> r, result |-> result, reached |-> FALSE, outcome |-> "returned"]

\* ranges, current values and steps of the calls
IntRanges == {<<VITAL_RANGES.heartRate.min, VITAL_RANGES.heartRate.max>>, <<79, 81>>, <<80, 80>>}
IntSteps == 0 .. 4
Spo2Ranges == {<<VITAL_RANGES.spo2.min, VITAL_RANGES.spo2.max>>, <<98000, 98000>>}
Spo2Currents(min, max) == {0} \cup {v \in min .. max : v % 250 = 0}
Spo2Steps == {0, 100, 250, 500, 1000}
TempRanges == {<<VITAL_RANGES.temperature.min, VITAL_RANGES.temperature.max>>}
TempCurrents == {0, 100, 5000, 9999, 10000, 50000, 90000, 93750, 97700, 97999,
                 98000, 98500, 99000}
TempSteps == {0, 100, 200}

page == <<variant, appState, vitals, ecgData1, ecgData2, ecgData3,
          analysisReport, ecgImages, isSerialConnected, intervalRef,
          timeoutRef, finalVitalsRef, ecgPatternIndexRef, arrhythmiaStateRef,
          beatVariationRef, portRef, readerRef, portOpen, reading, rendered, dirty,
          ecg1Changed, pipe, clock, startClock, stopCancels, chunksRead,
          ttsAvailable, chartRefs, atStop>>

callGetRandomVital ==
  /\ gen = NoCall
  /\ \E rg \in IntRanges, m \in IntSteps, r \in RandDraws :
       \E cur \in {0} \cup (rg[1] .. rg[2]) :
         gen' = Call("getRandomVital", rg[1], rg[2], cur, m, r,
                     getRandomVital(rg[1], rg[2], cur, m, r))
  /\ UNCHANGED <<page, lineLog, aside>>

callGetBloodPressureVital ==
  /\ gen = NoCall
  /\ \E rg \in IntRanges, m \in IntSteps, r \in RandDraws :
       \E cur \in {0} \cup (rg[1] .. rg[2]) :
         gen' = Call("getBloodPressureVital", rg[1], rg[2], cur, m, r,
                     getBloodPressureVital(rg[1], rg[2], cur, m, r))
  /\ UNCHANGED <<page, lineLog, aside>>

callGetSpo2Vital ==
  /\ gen = NoCall
  /\ \E rg \in Spo2Ranges, m \in Spo2Steps, r \in RandDraws :
       \E cur \in Spo2Currents(rg[1], rg[2]) :
         gen' = Call("getSpo2Vital", rg[1], rg[2], cur, m, r,
                     getSpo2Vital(rg[1], rg[2], cur, m, r))
  /\ UNCHANGED <<page, lineLog, aside>>

callGetTemperatureVital ==
  /\ gen = NoCall
  /\ \E rg \in TempRanges, m \in TempSteps, r \in RandDraws, cur \in TempCurrents :
       gen' = Call("getTemperatureVital", rg[1], rg[2], cur, m, r,
                   getTemperatureVital(rg[1], rg[2], cur, m, r))
  /\ UNCHANGED <<page, lineLog, aside>>

\* the temperature of successive ticks, from the cold start:
\* prev.temperature -> getTemperatureVital(min, max, prev.temperature, 0.1)
temperatureTick ==
  /\ gen.fn \in {"none", "temperatureTick"}
  /\ \E r \in RandDraws :
       LET cur == gen.result
           min == VITAL_RANGES.temperature.min
           max == VITAL_RANGES.temperature.max
           res == getTemperatureVital(min, max, cur, 100, r)
       IN gen' = [Call("temperatureTick", min, max, cur, 100, r, res)
                    EXCEPT !.reached = gen.reached \/ res >= 98000]
  /\ UNCHANGED <<page, lineLog, aside>>

GenInit ==
  /\ variant = "sim"
  /\ appState = "READY"
  /\ vitals = ColdVitals
  /\ ecgData1 = <<>>
  /\ ecgData2 = <<>>
  /\ ecgData3 = <<>>
  /\ analysisReport = NoReport
  /\ ecgImages = <<>>
  /\ isSerialConnected = FALSE
  /\ intervalRef = NullRef
  /\ timeoutRef = NullRef
  /\ finalVitalsRef = ColdVitals
  /\ ecgPatternIndexRef = 0
  /\ arrhythmiaStateRef = [type |-> "none", index |-> 0]
  /\ beatVariationRef = [amplitude |-> 1000, beatLength |-> Len(ECG_PATTERN_1)]
  /\ portRef = "null"
  /\ readerRef = "null"
  /\ portOpen = FALSE
  /\ reading = FALSE
  /\ rendered = [appState |-> "READY", ecgData1 |-> <<>>, isSerialConnected |-> FALSE]
  /\ dirty = FALSE
  /\ ecg1Changed = FALSE
  /\ pipe = [p \in Pipes |-> IdlePipe]
  /\ clock = 0
  /\ startClock = 0
  /\ stopCancels = 0
  /\ chunksRead = 0
  /\ ttsAvailable = FALSE
  /\ chartRefs = <<TRUE, TRUE, TRUE>>
  /\ gen = NoCall
  /\ lineLog = <<>>
  /\ buffer = <<>>
  /\ stream = <<>>
  /\ hiddenAgeOverride = 0
  /\ pushed = <<>>
  /\ atStop = NotStopped
  /\ mail = Unmounted

GenNext ==
  \/ callGetRandomVital
  \/ callGetBloodPressureVital
  \/ callGetSpo2Vital
  \/ callGetTemperatureVital
  \/ temperatureTick

GenSpec == GenInit /\ [][GenNext]_vars

\* calls outside the domain: a range with min > max, a negative maxChange.
\* The generators have no throw statement: every call returns a number.
ReversedIntRanges == {<<100, 60>>, <<81, 79>>}
ReversedMilliRanges == {<<100000, 98000>>, <<99000, 97800>>}
NegativeIntSteps == {-2, -1}
NegativeMilliSteps == {-500, -100}

callOutOfDomain ==
  /\ gen = NoCall
  /\ \E fn \in {"getRandomVital", "getBloodPressureVital", "getSpo2Vital",
                 "getTemperatureVital"}, r \in RandDraws :
       LET milli == fn \in {"getSpo2Vital", "getTemperatureVital"}
           ranges == IF milli THEN Spo2Ranges \cup TempRanges \cup ReversedMilliRanges
                     ELSE IntRanges \cup ReversedIntRanges
           steps == IF milli THEN Spo2Steps \cup TempSteps \cup NegativeMilliSteps
                    ELSE IntSteps \cup NegativeIntSteps
       IN \E rg \in ranges, m \in steps :
            /\ rg[1] > rg[2] \/ m < 0
            /\ \E cur \in IF milli THEN {0, 98000, 98500} ELSE {0, 80} :
                 gen' = Call(fn, rg[1], rg[2], cur, m, r,
                             CASE fn = "getRandomVital" ->
                                    getRandomVital(rg[1], rg[2], cur, m, r)
                               [] fn = "getBloodPressureVital" ->
                                    getBloodPressureVital(rg[1], rg[2], cur, m, r)
                               [] fn = "getSpo2Vital" ->
                                    getSpo2Vital(rg[1], rg[2], cur, m, r)
                               [] fn = "getTemperatureVital" ->
                                    getTemperatureVital(rg[1], rg[2], cur, m, r))
  /\ UNCHANGED <<page, lineLog, aside>>

DomainInit == GenInit
DomainNext == callOutOfDomain
DomainSpec == DomainInit /\ [][DomainNext]_vars

----------------------------------------------------------------------------
(* The read loop seen line by line: a connected page whose device sends    *)
(* chunks drawn from a wider set of records, every alternative key         *)
(* included.  lineLog records the lines applied, in order.                 *)

MaxLines == 2

LineRecords ==
  {[hr |-> 72, ecg |-> 55000], [bp |-> <<120, 80>>], [heartRate |-> 65],
   [hr |-> 72, heartRate |-> 65], [systolic |-> 110, bp |-> <<120, 80>>],
   [diastolic |-> 70], [spo2 |-> 97000], [oxygen |-> 96000],
   [spo2 |-> 97000, oxygen |-> 96000], [temp |-> 98600], [temperature |-> 99100],
   [temp |-> 98600, temperature |-> 99100], [glucose |-> 90], [bloodSugar |-> 95],
   [glucose |-> 90, bloodSugar |-> 95], [ecg2 |-> 60000], [ecg3 |-> 40000],
   [ecg |-> 55000, ecg2 |-> 60000, ecg3 |-> 40000]}

LineChunks ==
  {<<rec>> : rec \in LineRecords} \cup {<<Malformed>>}
    \cup {<<Malformed, rec>> : rec \in {[hr |-> 72, ecg |-> 55000], [bp |-> <<120, 80>>]}}
    \cup {<<[hr |-> 72, ecg |-> 55000], [bp |-> <<120, 80>>]>>}

\* reader.read() resolves with a chunk of complete lines
readLines ==
  /\ reading
  /\ Len(lineLog) < MaxLines
  /\ \E chunk \in LineChunks :
       LET s == applyLines([vitals |-> vitals, fv |-> finalVitalsRef, e1 |-> ecgData1,
                            e2 |-> ecgData2, e3 |-> ecgData3, c1 |-> FALSE], chunk)
       IN /\ lineLog' = lineLog \o chunk
          /\ vitals' = s.vitals
          /\ finalVitalsRef' = s.fv
          /\ ecgData1' = s.e1
          /\ ecgData2' = s.e2
          /\ ecgData3' = s.e3
          /\ Defer(s.c1, intervalRef, timeoutRef)
  /\ UNCHANGED <<variant, ttsAvailable, chartRefs, gen, aside, atStop, appState,
                 analysisReport, ecgImages, simRefs, serial, pipe, clock, stopCancels,
                 chunksRead>>

\* the page after connectSerial has succeeded and the page has rendered
LineInit ==
  /\ variant = "hw"
  /\ appState = "READY"
  /\ vitals = ColdVitals
  /\ ecgData1 = <<>>
  /\ ecgData2 = <<>>
  /\ ecgData3 = <<>>
  /\ analysisReport = NoReport
  /\ ecgImages = <<>>
  /\ isSerialConnected = TRUE
  /\ intervalRef = NullRef
  /\ timeoutRef = NullRef
  /\ finalVitalsRef = ColdVitals
  /\ ecgPatternIndexRef = 0
  /\ arrhythmiaStateRef = [type |-> "none", index |-> 0]
  /\ beatVariationRef = [amplitude |-> 1000, beatLength |-> Len(ECG_PATTERN_1)]
  /\ portRef = "port"
  /\ readerRef = "reader"
  /\ portOpen = TRUE
  /\ reading = TRUE
  /\ rendered = [appState |-> "READY", ecgData1 |-> <<>>, isSerialConnected |-> TRUE]
  /\ dirty = FALSE
  /\ ecg1Changed = FALSE
  /\ pipe = [p \in Pipes |-> IdlePipe]
  /\ clock = 0
  /\ startClock = 0
  /\ stopCancels = 0
  /\ chunksRead = 0
  /\ ttsAvailable = FALSE
  /\ chartRefs = <<TRUE, TRUE, TRUE>>
  /\ gen = NoCall
  /\ lineLog = <<>>
  /\ buffer = <<>>
  /\ stream = <<>>
  /\ hiddenAgeOverride = 0
  /\ pushed = <<>>
  /\ atStop = NotStopped
  /\ mail = Unmounted

LineNext ==
  \/ readLines
  \/ handleStart
  \/ Render

LineSpec == LineInit /\ [][LineNext]_vars

----------------------------------------------------------------------------
(* The read loop seen character by character: reader.read() delivers any   *)
(* cut of the device's text.  The text is written over four characters:    *)
(* "a" and "b" stand for the two halves of the text of a JSON object,      *)
(* " " for white space and "\n" for the newline.  The line "ab" is the     *)
(* text of {"hr":72,"ecg":55}, the line "ba" that of {"bp":[120,80]};      *)
(* JSON.parse rejects every other line.                                    *)

MaxStream == 6        \* characters the device delivers
MaxChunkLen == 3      \* characters in one chunk

Chars == {"a", "b", " ", "\n"}

\* the values reader.read() can resolve with: non-empty texts
Chunks == UNION {[1 .. n -> Chars] : n \in 1 .. MaxChunkLen}

\* String.prototype.split('\n'): the pieces between the newlines
RECURSIVE split(_)
split(text) ==
  IF text = <<>> THEN << <<>> >>
  ELSE LET rest == split(Tail(text))
       IN IF Head(text) = "\n" THEN << <<>> >> \o rest
          ELSE << <<Head(text)>> \o Head(rest) >> \o Tail(rest)

\* String.prototype.trim
RECURSIVE trimStart(_)
trimStart(text) ==
  IF text # <<>> /\ Head(text) \in {" ", "\n"} THEN trimStart(Tail(text)) ELSE text

RECURSIVE trimEnd(_)
trimEnd(text) ==
  IF text # <<>> /\ text[Len(text)] \in {" ", "\n"}
  THEN trimEnd(SubSeq(text, 1, Len(text) - 1)) ELSE text

trim(text) == trimEnd(trimStart(text))

\* JSON.parse(line.trim()), a throw being the malformed line
parseLine(line) ==
  LET t == trim(line)
  IN IF t = <<"a", "b">> THEN [hr |-> 72, ecg |-> 55000]
     ELSE IF t = <<"b", "a">> THEN [bp |-> <<120, 80>>]
     ELSE Malformed

parseLines(lines) == [i \in 1 .. Len(lines) |-> parseLine(lines[i])]

pop_Drop(lines) == <<>>

\* buffer = lines.pop() || ""
pop(lines) == lines[Len(lines)]

\* the lines left in the array after the pop
popped(lines) == SubSeq(lines, 1, Len(lines) - 1)

\* reader.read() resolves with a chunk of text
readChunk ==
  /\ reading
  /\ \E chunk \in Chunks :
       /\ Len(stream) + Len(chunk) <= MaxStream
       /\ stream' = stream \o chunk
       /\ LET lines == split(buffer \o chunk)
              s == applyLines([vitals |-> vitals, fv |-> finalVitalsRef, e1 |-> ecgData1,
                               e2 |-> ecgData2, e3 |-> ecgData3, c1 |-> FALSE],
                              parseLines(popped(lines)))
          IN /\ buffer' = pop(lines)
             /\ vitals' = s.vitals
             /\ finalVitalsRef' = s.fv
             /\ ecgData1' = s.e1
             /\ ecgData2' = s.e2
             /\ ecgData3' = s.e3
             /\ Defer(s.c1, intervalRef, timeoutRef)
  /\ UNCHANGED <<variant, ttsAvailable, chartRefs, gen, lineLog, atStop, mail, hiddenAgeOverride, pushed,
                 appState, analysisReport, ecgImages, simRefs, serial, pipe, clock,
                 stopCancels, chunksRead>>

\* the page after connectSerial has succeeded and the page has rendered
ChunkInit == LineInit

ChunkNext ==
  \/ readChunk
  \/ Render

ChunkSpec == ChunkInit /\ [][ChunkNext]_vars

----------------------------------------------------------------------------
(* updateEcgData taken on its own: any sequence of calls                   *)
(* updateEcgData(setEcgData<lead>, value) on the windows of a page whose   *)
(* windows are still empty.  pushed records the calls in order.            *)

MaxPushes == 4        \* calls of updateEcgData

Samples == {40000, 60000}

pushSample ==
  /\ Len(pushed) < MaxPushes
  /\ \E lead \in Leads, value \in Samples :
       /\ pushed' = Append(pushed, <<lead, value>>)
       /\ ecgData1' = IF lead = 1 THEN updateEcgData(ecgData1, value) ELSE ecgData1
       /\ ecgData2' = IF lead = 2 THEN updateEcgData(ecgData2, value) ELSE ecgData2
       /\ ecgData3' = IF lead = 3 THEN updateEcgData(ecgData3, value) ELSE ecgData3
       /\ Defer(lead = 1, intervalRef, timeoutRef)
  /\ UNCHANGED <<variant, ttsAvailable, chartRefs, gen, lineLog, atStop, mail, buffer, stream,
                 hiddenAgeOverride, appState, vitals, analysisReport, ecgImages,
                 finalVitalsRef, simRefs, serial, pipe, clock, stopCancels, chunksRead>>

WindowInit == LineInit
WindowNext == pushSample
WindowSpec == WindowInit /\ [][WindowNext]_vars

----------------------------------------------------------------------------
(* The report view (AiAnalysisReport) taken on its own, mounted with the   *)
(* props handed over by View Report.  mail.sendStatus is the useState      *)
(* cell, mail.shown the sendStatus of the last render, mail.requests the   *)
(* POST /send-report requests made so far, each with its body and state.   *)

MaxSends == 3         \* clicks on the send button

Emails == {"a@clinic.example", "b@clinic.example"}
ImageLists == {<<"png", "png", "png">>, <<"png", "png", "null">>}

\* how a request ends: response.ok, a response that is not ok, a rejected fetch
FetchOutcomes == {"ok", "notOk", "rejected"}

sendDisabled_Never(status) == FALSE

\* disabled={sendStatus === 'sending' || sendStatus === 'sent'}
sendDisabled(status) == status \in {"sending", "sent"}

\* a click on the send button of the last render: setSendStatus('sending')
\* and the fetch; the click renders before the next event
handleSendEmail ==
  /\ ~sendDisabled(mail.shown)
  /\ Len(mail.requests) < MaxSends
  /\ mail' = [mail EXCEPT
        !.sendStatus = "sending",
        !.shown = "sending",
        !.requests = Append(@, [st |-> "pending",
                                body |-> [email |-> mail.email, report |-> mail.report,
                                          ecgImages |-> mail.ecgImages]])]
  /\ UNCHANGED <<page, gen, lineLog, buffer, stream, hiddenAgeOverride, pushed>>

\* the awaited fetch settles: 'sent' when response.ok, 'error' when the
\* response is not ok (the throw) or the fetch rejected (the catch)
sendSettle ==
  /\ \E i \in 1 .. Len(mail.requests), outcome \in FetchOutcomes :
       /\ mail.requests[i].st = "pending"
       /\ mail' = [mail EXCEPT
             !.sendStatus = IF outcome = "ok" THEN "sent" ELSE "error",
             !.requests[i].st = outcome]
  /\ UNCHANGED <<page, gen, lineLog, buffer, stream, hiddenAgeOverride, pushed>>

\* the render that follows a state update made after an await
renderReport ==
  /\ mail.shown # mail.sendStatus
  /\ mail' = [mail EXCEPT !.shown = mail.sendStatus]
  /\ UNCHANGED <<page, gen, lineLog, buffer, stream, hiddenAgeOverride, pushed>>

EmailInit ==
  /\ variant = "sim"
  /\ appState = "READY"
  /\ vitals = ColdVitals
  /\ ecgData1 = <<>>
  /\ ecgData2 = <<>>
  /\ ecgData3 = <<>>
  /\ analysisReport = NoReport
  /\ ecgImages = <<>>
  /\ isSerialConnected = FALSE
  /\ intervalRef = NullRef
  /\ timeoutRef = NullRef
  /\ finalVitalsRef = ColdVitals
  /\ ecgPatternIndexRef = 0
  /\ arrhythmiaStateRef = [type |-> "none", index |-> 0]
  /\ beatVariationRef = [amplitude |-> 1000, beatLength |-> Len(ECG_PATTERN_1)]
  /\ portRef = "null"
  /\ readerRef = "null"
  /\ portOpen = FALSE
  /\ reading = FALSE
  /\ rendered = [appState |-> "READY", ecgData1 |-> <<>>, isSerialConnected |-> FALSE]
  /\ dirty = FALSE
  /\ ecg1Changed = FALSE
  /\ pipe = [p \in Pipes |-> IdlePipe]
  /\ clock = 0
  /\ startClock = 0
  /\ stopCancels = 0
  /\ chunksRead = 0
  /\ ttsAvailable = FALSE
  /\ chartRefs = <<TRUE, TRUE, TRUE>>
  /\ gen = NoCall
  /\ lineLog = <<>>
  /\ buffer = <<>>
  /\ stream = <<>>
  /\ hiddenAgeOverride = 0
  /\ pushed = <<>>
  /\ atStop = NotStopped
  /\ \E email \in Emails, images \in ImageLists :
       mail = [sendStatus |-> "idle", shown |-> "idle", requests |-> <<>>,
               report |-> "report", email |-> email, ecgImages |-> images]

EmailNext == handleSendEmail \/ sendSettle \/ renderReport
EmailSpec == EmailInit /\ [][EmailNext]_vars

----------------------------------------------------------------------------
(* The specification: both variants, chosen at construction *)

Init ==
  /\ variant \in {"sim", "hw"}
  /\ appState = "READY"
  /\ vitals = ColdVitals
  /\ ecgData1 = <<>>
  /\ ecgData2 = <<>>
  /\ ecgData3 = <<>>
  /\ analysisReport = NoReport
  /\ ecgImages = <<>>
  /\ isSerialConnected = FALSE
  /\ intervalRef = NullRef
  /\ timeoutRef = NullRef
  /\ finalVitalsRef = ColdVitals
  /\ ecgPatternIndexRef = 0
  /\ arrhythmiaStateRef = [type |-> "none", index |-> 0]
  /\ beatVariationRef = [amplitude |-> 1000, beatLength |-> Len(ECG_PATTERN_1)]
  /\ portRef = "null"
  /\ readerRef = "null"
  /\ portOpen = FALSE
  /\ reading = FALSE
  /\ rendered = [appState |-> "READY", ecgData1 |-> <<>>, isSerialConnected |-> FALSE]
  /\ dirty = FALSE
  /\ ecg1Changed = FALSE
  /\ pipe = [p \in Pipes |-> IdlePipe]
  /\ clock = 0
  /\ startClock = 0
  /\ stopCancels = 0
  /\ chunksRead = 0
  /\ ttsAvailable \in BOOLEAN
  /\ chartRefs \in RefPresence
  /\ gen = NoCall
  /\ lineLog = <<>>
  /\ buffer = <<>>
  /\ stream = <<>>
  /\ hiddenAgeOverride = 0
  /\ pushed = <<>>
  /\ atStop = NotStopped
  /\ mail = Unmounted

Next ==
  \/ Render
  \/ handleStart
  \/ updateVitals
  \/ Advance
  \/ stopMonitoring
  \/ sessionTimeout
  \/ \E p \in Pipes : ttsSettle(p)
  \/ \E p \in Pipes : fetchSettle(p)
  \/ \E p \in Pipes : jsonSettle(p)
  \/ \E p \in Pipes, i \in Leads : captureSettle(p, i)
  \/ \E p \in Pipes : tts2Settle(p)
  \/ connectSerial
  \/ readLoop
  \/ readDone
  \/ readError
  \/ disconnectSerial

Spec == Init /\ [][Next]_vars

\* Ctrl+Shift+A: cycle the hidden age override and reset blood pressure
\* (a keydown is a discrete event: its updates are rendered at once)
testAges == <<20, 25, 35, 45, 55, 0>>

handleKeyDown ==
  /\ variant = "sim"
  /\ LET currentIndex == CHOOSE i \in 1 .. Len(testAges) : testAges[i] = hiddenAgeOverride
         nextIndex == (currentIndex % Len(testAges)) + 1
     IN hiddenAgeOverride' = testAges[nextIndex]
  /\ vitals' = [vitals EXCEPT !.systolic = 0, !.diastolic = 0]
  /\ Commit(appState, ecgData1, isSerialConnected, ecg1Changed, intervalRef, timeoutRef)
  /\ UNCHANGED <<variant, ttsAvailable, chartRefs, gen, lineLog, atStop, mail, buffer, stream, pushed,
                 appState, windows, analysisReport, ecgImages, finalVitalsRef,
                 simRefs, serial, pipe, clock, stopCancels, chunksRead>>

\* the simulator page with its key handler, up to the end of monitoring
AgeInit ==
  /\ Init
  /\ variant = "sim"
  /\ ~ttsAvailable
  /\ chartRefs = <<TRUE, TRUE, TRUE>>

AgeNext ==
  \/ handleKeyDown
  \/ handleStart
  \/ updateVitals
  \/ Advance
  \/ Render

AgeSpec == AgeInit /\ [][AgeNext]_vars

\* the simulator page while monitoring, every beat shape being drawn
BeatInit == AgeInit

BeatNext ==
  \/ handleStart
  \/ updateVitalsAnyBeat
  \/ Advance
  \/ Render

BeatSpec == BeatInit /\ [][BeatNext]_vars

\* the same, with the scheduling the runtime provides: a queued render runs,
\* and every collaborator call eventually settles
Fairness ==
  /\ WF_vars(Render)
  /\ \A p \in Pipes : WF_vars(ttsSettle(p))
  /\ \A p \in Pipes : WF_vars(fetchSettle(p))
  /\ \A p \in Pipes : WF_vars(jsonSettle(p))
  /\ \A p \in Pipes : \A i \in Leads : WF_vars(captureSettle(p, i))
  /\ \A p \in Pipes : WF_vars(tts2Settle(p))

FairSpec == Init /\ [][Next]_vars /\ Fairness

----------------------------------------------------------------------------
(* Properties *)

Started(p) == pipe[p].pc # "idle"
Pending(p) == \/ pipe[p].pc \in {"fetch", "json"}
              \/ \E i \in Leads : pipe[p].cap[i] = "pending"
EqualLengths == Len(ecgData1) = Len(ecgData2) /\ Len(ecgData2) = Len(ecgData3)

\* C1: in both variants the session state changes only READY -> MONITORING,
\* MONITORING -> ANALYZING and ANALYZING -> COMPLETE.
C1_Transitions ==
  [][appState' # appState =>
       <<appState, appState'>> \in {<<"READY", "MONITORING">>,
                                    <<"MONITORING", "ANALYZING">>,
                                    <<"ANALYZING", "COMPLETE">>}]_vars

C1_Witness ==
  /\ variant = "hw"
  /\ appState = "COMPLETE"
  /\ \E p \in Pipes : pipe[p].pc = "done"

\* C2: a stop request issued while the session state is READY, ANALYZING or
\* COMPLETE changes neither the session state, the report, the images, the
\* vitals nor the ECG windows, and does not invoke the post-session pipeline.
C2_StopIsNoOp ==
  [][(appState # "MONITORING" /\ (stopMonitoring \/ sessionTimeout)) =>
       UNCHANGED <<appState, analysisReport, ecgImages, vitals, windows, pipe>>]_vars

\* C3: in the simulator variant the session has left MONITORING at the
\* latest MONITORING_DURATION_MS after its start.
C3_SimTimerEndsSession ==
  (variant = "sim" /\ appState = "MONITORING") =>
     clock - startClock <= MONITORING_DURATION_TICKS

\* C4: in the hardware variant, while the device stays connected, the session
\* has left MONITORING at the latest MONITORING_DURATION_MS after its start,
\* whatever lines arrive.
C4_HwTimerEndsSession ==
  (variant = "hw" /\ appState = "MONITORING" /\ isSerialConnected) =>
     clock - startClock <= MONITORING_DURATION_TICKS

C6_InferenceFailureDegrades ==
  [][\A p \in Pipes :
       (pipe[p].pc = "fetch" /\ pipe'[p].pc \notin {"fetch", "json"}) =>
          /\ analysisReport'.kind = "report"
          /\ analysisReport'.potential_diagnosis = "Awaiting advanced analysis."
          /\ analysisReport'.recommendations = <<"Consult healthcare professional">>
          /\ analysisReport'.hubert_ecg_analysis \in {HubertConnectError, HubertStatusError}]_vars

C6_Witness ==
  /\ variant = "sim"
  /\ appState = "COMPLETE"
  /\ analysisReport.kind = "report"
  /\ analysisReport.hubert_ecg_analysis = HubertStatusError
  /\ analysisReport.potential_diagnosis = "Awaiting advanced analysis."

\* C7: no state with appState = COMPLETE has an inference request or a chart
\* capture still pending, and the inference request is sent once per session.
C7_CompleteAfterAllSettled ==
  /\ appState = "COMPLETE" => \A p \in Pipes : ~Pending(p)
  /\ Cardinality({p \in Pipes : pipe[p].req.sent}) <= 1

\* C8: the post-session pipeline runs at most once per session and the
\* timers are cancelled by at most one stop invocation.
C8_PipelineRunsOnce ==
  /\ Cardinality({p \in Pipes : Started(p)}) <= 1
  /\ stopCancels <= 1

\* C9: in the simulator variant the three ECG windows have the same length,
\* at most ECG_DATA_LENGTH.
C9_SimWindows ==
  variant = "sim" => (EqualLengths /\ Len(ecgData1) <= ECG_DATA_LENGTH)

\* a window holding a PVC sample, a pause sample and a scaled beat sample
C9_Witness ==
  /\ variant = "sim"
  /\ Len(ecgData1) = ECG_DATA_LENGTH
  /\ \E i, j, k \in 1 .. ECG_DATA_LENGTH :
       /\ ecgData1[i] = PVC_PATTERN_1[1] * 1000
       /\ ecgData1[j] = 50000
       /\ ecgData1[k] \notin {50000, PVC_PATTERN_1[1] * 1000, PVC_PATTERN_1[2] * 1000}

\* C10: in the hardware variant the three ECG windows have the same length in
\* every reachable state.
C10_HwWindows == variant = "hw" => EqualLengths

Last(w) == w[Len(w)]
\* the window w2 is the full window w1 shifted by one sample
Shifted(w1, w2) ==
  /\ Len(w1) = ECG_DATA_LENGTH
  /\ Len(w2) = ECG_DATA_LENGTH
  /\ \A i \in 1 .. (ECG_DATA_LENGTH - 1) : w2[i] = w1[i + 1]
NoArrhythmia == [type |-> "none", index |-> 0]

\* C11: every simulator tick appends exactly one sample to each lead, taken
\* from exactly one driver.  In a PVC episode (arrhythmia state 'pvc' with
\* index k) the tick emits PVC_PATTERN[k] and moves to index k + 1, returning
\* to 'none' after the last index; from 'none' a tick either starts an
\* episode by emitting PVC_PATTERN[0], or emits the normal driver's sample
\* (a scaled pattern point or the baseline of a pause) and stays in 'none'.
C11_OneDriverPerTick ==
  [][updateVitals =>
       LET k == arrhythmiaStateRef.index
           n == Len(PVC_PATTERN_1)
           idx == ecgPatternIndexRef
           amp == beatVariationRef'.amplitude
       IN /\ Shifted(ecgData1, ecgData1') /\ Shifted(ecgData2, ecgData2')
          /\ Shifted(ecgData3, ecgData3')
          /\ IF arrhythmiaStateRef.type = "pvc"
             THEN /\ Last(ecgData1') = PVC_PATTERN_1[k + 1] * 1000
                  /\ Last(ecgData2') = PVC_PATTERN_2[k + 1] * 1000
                  /\ Last(ecgData3') = PVC_PATTERN_3[k + 1] * 1000
                  /\ arrhythmiaStateRef' = IF k + 1 = n THEN NoArrhythmia
                                           ELSE [type |-> "pvc", index |-> k + 1]
             ELSE \/ /\ arrhythmiaStateRef' = [type |-> "pvc", index |-> 1]
                     /\ Last(ecgData1') = PVC_PATTERN_1[1] * 1000
                     /\ Last(ecgData2') = PVC_PATTERN_2[1] * 1000
                     /\ Last(ecgData3') = PVC_PATTERN_3[1] * 1000
                  \/ /\ arrhythmiaStateRef' = NoArrhythmia
                     /\ IF idx >= Len(ECG_PATTERN_1)
                        THEN /\ Last(ecgData1') = 50000 /\ Last(ecgData2') = 50000
                             /\ Last(ecgData3') = 50000
                        ELSE /\ Last(ecgData1') = (ECG_PATTERN_1[idx + 1] - 50) * amp + 50000
                             /\ Last(ecgData2') = (ECG_PATTERN_2[idx + 1] - 50) * amp + 50000
                             /\ Last(ecgData3') = (ECG_PATTERN_3[idx + 1] - 50) * amp + 50000]_vars

\* a completed PVC episode followed by the first sample of a normal beat
C11_Witness ==
  /\ variant = "sim"
  /\ arrhythmiaStateRef = NoArrhythmia
  /\ ecgData1 = <<PVC_PATTERN_1[1] * 1000, PVC_PATTERN_1[2] * 1000,
                  (ECG_PATTERN_1[1] - 50) * beatVariationRef.amplitude + 50000>>

Baseline(w) == Len(w) = ECG_DATA_LENGTH /\ \A i \in 1 .. Len(w) : w[i] = 50000

Generators == {"getRandomVital", "getBloodPressureVital", "getSpo2Vital",
               "getTemperatureVital"}
InRange == gen.min <= gen.result /\ gen.result <= gen.max

\* C13 (as stated): every generator called with a current value other than
\* the cold-start value 0 returns a value in [min, max].
C13_AllGeneratorsInRange ==
  (gen.fn \in Generators /\ gen.current # 0) => InRange

\* C13 (amended): getRandomVital, getBloodPressureVital and getSpo2Vital
\* return a value in [min, max] whenever current is not 0; getTemperatureVital
\* does so whenever current >= 98, and below that returns a warm-up value:
\* in [90, 95) for 0 < current < 10, in [current, 98] for 10 <= current < 98.
C13_ClampedGeneratorsInRange ==
  (gen.fn \in Generators /\ gen.current # 0) =>
     IF gen.fn # "getTemperatureVital" \/ gen.current >= 98000 THEN InRange
     ELSE IF gen.current < 10000 THEN gen.result >= 90000 /\ gen.result < 95000
     ELSE gen.current <= gen.result /\ gen.result <= 98000

\* a final-phase temperature call whose perturbation is cut off at max
C13_Witness ==
  /\ gen.fn = "getTemperatureVital"
  /\ gen.current = gen.max
  /\ gen.maxChange > 0
  /\ 2 * gen.r > RandDen
  /\ gen.result = gen.max

\* C14: in the sequence of temperatures of successive ticks started at 0,
\* a value is not smaller than the one before it as long as no value so far
\* has been >= 98, and every value after the first one >= 98 lies in
\* [97.8, 99.0].
C14_TemperatureRamp ==
  [][gen'.fn = "temperatureTick" =>
       IF gen.reached
       THEN gen'.result >= 97800 /\ gen'.result <= 99000
       ELSE gen'.result >= gen.result]_vars

\* after reaching 98 the temperature has dipped below it again
C14_Witness ==
  /\ gen.fn = "temperatureTick"
  /\ gen.reached
  /\ gen.current >= 98000
  /\ gen.result < 98000

WellFormed(rec) == "malformed" \notin DOMAIN rec
Pick(rec, a, b, prev) ==
  IF a \in DOMAIN rec THEN rec[a] ELSE IF b \in DOMAIN rec THEN rec[b] ELSE prev
PickBp(rec, a, i, prev) ==
  IF a \in DOMAIN rec THEN rec[a] ELSE IF "bp" \in DOMAIN rec THEN rec.bp[i] ELSE prev
\* w2 is w with v appended under the window rule
AppendedTo(w, w2, v) ==
  w2 = IF Len(w) < ECG_DATA_LENGTH THEN Append(w, v) ELSE Append(Tail(w), v)
\* the step applies the record rec, and nothing else, to the vitals and windows
Applied(rec) ==
  /\ vitals'.heartRate = Pick(rec, "hr", "heartRate", vitals.heartRate)
  /\ vitals'.systolic = PickBp(rec, "systolic", 1, vitals.systolic)
  /\ vitals'.diastolic = PickBp(rec, "diastolic", 2, vitals.diastolic)
  /\ vitals'.spo2 = Pick(rec, "spo2", "oxygen", vitals.spo2)
  /\ vitals'.temperature = Pick(rec, "temp", "temperature", vitals.temperature)
  /\ vitals'.bloodSugar = Pick(rec, "glucose", "bloodSugar", vitals.bloodSugar)
  /\ IF "ecg" \in DOMAIN rec THEN AppendedTo(ecgData1, ecgData1', rec.ecg)
     ELSE ecgData1' = ecgData1
  /\ IF "ecg2" \in DOMAIN rec THEN AppendedTo(ecgData2, ecgData2', rec.ecg2)
     ELSE ecgData2' = ecgData2
  /\ IF "ecg3" \in DOMAIN rec THEN AppendedTo(ecgData3, ecgData3', rec.ecg3)
     ELSE ecgData3' = ecgData3
ScenarioLines == <<[hr |-> 72, ecg |-> 55000], [bp |-> <<120, 80>>]>>

\* C16: a step that applies one well-formed record sets each vital from the
\* record's field (first key, else the alternative key, else the previous
\* value) and appends each present ecg/ecg2/ecg3 value to that lead's window
\* and to no other; and after the lines {"hr":72,"ecg":55} and
\* {"bp":[120,80]} on a fresh page the heart rate is 72, the blood pressure
\* 120/80 and Lead I holds exactly one sample, of amplitude 55.
C16_RecordMerge ==
  [][/\ (Len(lineLog') = Len(lineLog) + 1 /\ WellFormed(Last(lineLog')))
          => Applied(Last(lineLog'))
     /\ (lineLog' = ScenarioLines /\ appState' = "READY") =>
          /\ vitals'.heartRate = 72
          /\ vitals'.systolic = 120 /\ vitals'.diastolic = 80
          /\ ecgData1' = <<55000>> /\ ecgData2' = <<>> /\ ecgData3' = <<>>]_vars

\* the scenario's two lines have been applied to a fresh page
C16_Witness ==
  /\ lineLog = ScenarioLines
  /\ appState = "READY"
  /\ vitals.heartRate = 72
  /\ vitals.systolic = 120
  /\ ecgData1 = <<55000>>

C18_LoopEndDeactivates ==
  [][(variant = "hw" /\ reading /\ ~reading') => ~isSerialConnected']_vars

\* C19: a disconnect leaves the connection status false, both refs cleared,
\* the in-flight read ended and the port closed, whatever reader.cancel()
\* does.
C19_DisconnectReleases ==
  [][(variant = "hw" /\ portRef = "port" /\ portRef' = "null") =>
        /\ ~isSerialConnected'
        /\ readerRef' = "null"
        /\ ~reading'
        /\ ~portOpen']_vars

\* C20: while the hardware session is MONITORING and the connection is lost,
\* the step that loses it keeps the state MONITORING, and as long as the
\* state stays MONITORING the pending session timeout is left as it is (no
\* waveform sample has arrived, so nothing else replaces it).
C20_ConnectionLossKeepsSession ==
  [][(variant = "hw" /\ appState = "MONITORING" /\ ~isSerialConnected'
        /\ chunksRead' = 0) =>
        /\ isSerialConnected => appState' = "MONITORING"
        /\ appState' = "MONITORING" => timeoutRef' = timeoutRef]_vars

InferenceInFlight(p) == pipe[p].pc \in {"fetch", "json"}
CaptureInFlight(p) == \E i \in Leads : pipe[p].cap[i] = "pending"

C22_ConcurrentFanOut ==
  (appState = "ANALYZING") ~>
     (\E p \in Pipes : InferenceInFlight(p) /\ CaptureInFlight(p))

\* C23: the images stored by the pipeline are three, in lead order: the
\* position of a chart whose element is absent holds null, the position of
\* a chart whose capture may throw holds an image or null, and every other
\* position holds its image.
C23_CapturesIndependent ==
  ecgImages # <<>> =>
    /\ Len(ecgImages) = 3
    /\ \A i \in Leads :
         IF ~chartRefs[i] THEN ecgImages[i] = "null"
         ELSE IF i \in ThrowingCharts THEN ecgImages[i] \in {"png", "null"}
         ELSE ecgImages[i] = "png"

C23_Witness ==
  /\ appState = "COMPLETE"
  /\ chartRefs = <<TRUE, FALSE, TRUE>>
  /\ ecgImages = <<"png", "null", "null">>

\* C24: whatever the cut of the device's text into chunks, the records
\* applied are those of the complete lines of the whole text, each once and
\* in order, and the buffer holds the text after the last newline.
AppliedTo(text) ==
  applyLines([vitals |-> ColdVitals, fv |-> ColdVitals, e1 |-> <<>>, e2 |-> <<>>,
              e3 |-> <<>>, c1 |-> FALSE],
             parseLines(popped(split(text))))

C24_ChunkingIrrelevant ==
  LET s == AppliedTo(stream)
  IN /\ buffer = split(stream)[Len(split(stream))]
     /\ vitals = s.vitals
     /\ finalVitalsRef = s.fv
     /\ ecgData1 = s.e1
     /\ ecgData2 = s.e2
     /\ ecgData3 = s.e3

\* the text of two records, the first cut inside its line
C24_Witness ==
  /\ stream = <<"a", "b", "\n", "b", "a", "\n">>
  /\ buffer = <<>>
  /\ vitals.heartRate = 72
  /\ vitals.systolic = 120
  /\ ecgData1 = <<55000>>

\* C25: every tick generates a systolic and a diastolic value inside the
\* ranges of the band of the current age override (30 when there is none),
\* and a change of the override resets blood pressure to the cold start.
CurrentBand == getBloodPressureRanges(IF hiddenAgeOverride = 0 THEN 30 ELSE hiddenAgeOverride)

C25_BloodPressureFollowsAge ==
  [][/\ updateVitals =>
          /\ vitals'.systolic \in CurrentBand.systolic.min .. CurrentBand.systolic.max
          /\ vitals'.diastolic \in CurrentBand.diastolic.min .. CurrentBand.diastolic.max
     /\ hiddenAgeOverride' # hiddenAgeOverride =>
          (vitals'.systolic = 0 /\ vitals'.diastolic = 0)]_vars

\* C26: a generator called with min > max or with a negative maxChange
\* ends with an error, not with a value.
C26_OutOfDomainFailsFast ==
  (gen.fn # "none" /\ (gen.min > gen.max \/ gen.maxChange < 0)) => gen.outcome = "error"

\* C27: the report is stored by the step from ANALYZING to COMPLETE and by
\* no other step, and once the state is COMPLETE no step changes the
\* report or the captured images.
C27_ReportCreatedOnce ==
  [][/\ (analysisReport' # analysisReport /\ analysisReport' # NoReport) =>
          (appState = "ANALYZING" /\ appState' = "COMPLETE")
     /\ appState = "COMPLETE" =>
          (analysisReport' = analysisReport /\ ecgImages' = ecgImages)]_vars

\* C28: a PVC episode starts only on a tick that finds the arrhythmia state
\* 'none' and the beat position 0, and with index 0 (the tick emits that
\* sample and leaves index 1); in an episode a tick moves the index by one
\* and leaves the position alone; the tick that emits the last PVC sample
\* leaves the state 'none' and the position 0.
C28_PvcEpisode ==
  [][updateVitals =>
       LET arr == arrhythmiaStateRef
           n == Len(PVC_PATTERN_1)
       IN /\ (arr.type = "none" /\ arrhythmiaStateRef'.type = "pvc") =>
               /\ ecgPatternIndexRef = 0
               /\ arrhythmiaStateRef'.index = 1
               /\ Last(ecgData1') = PVC_PATTERN_1[1] * 1000
               /\ ecgPatternIndexRef' = 0
          /\ arr.type = "pvc" =>
               IF arr.index + 1 = n
               THEN /\ arrhythmiaStateRef' = NoArrhythmia
                    /\ ecgPatternIndexRef' = 0
               ELSE /\ arrhythmiaStateRef' = [type |-> "pvc", index |-> arr.index + 1]
                    /\ ecgPatternIndexRef' = ecgPatternIndexRef]_vars

\* the tick after the last sample of a PVC episode is again a beat start
C28_Witness ==
  /\ variant = "sim"
  /\ appState = "MONITORING"
  /\ arrhythmiaStateRef = NoArrhythmia
  /\ ecgPatternIndexRef = 0
  /\ SubSeq(ecgData1, 2, 3) = <<PVC_PATTERN_1[1] * 1000, PVC_PATTERN_1[2] * 1000>>

\* C29: a tick of normal rhythm at beat position p emits, on each lead,
\* 50 + (pattern[p] - 50) * amplitude when p is below the pattern length and
\* the baseline 50 otherwise, and moves the position to (p + 1) mod
\* beatLength; beatLength is the pattern length plus 0, 1 or 2 and p stays
\* below it, so a beat is the pattern followed by 0, 1 or 2 baseline samples.
NormalTick ==
  /\ updateVitalsAnyBeat
  /\ arrhythmiaStateRef.type = "none"
  /\ arrhythmiaStateRef'.type = "none"

C29_NormalBeat ==
  [][NormalTick =>
       LET p == ecgPatternIndexRef
           n == Len(ECG_PATTERN_1)
           amp == beatVariationRef'.amplitude
           len == beatVariationRef'.beatLength
       IN /\ IF p < n
             THEN /\ Last(ecgData1') = 50000 + (ECG_PATTERN_1[p + 1] - 50) * amp
                  /\ Last(ecgData2') = 50000 + (ECG_PATTERN_2[p + 1] - 50) * amp
                  /\ Last(ecgData3') = 50000 + (ECG_PATTERN_3[p + 1] - 50) * amp
             ELSE /\ Last(ecgData1') = 50000
                  /\ Last(ecgData2') = 50000
                  /\ Last(ecgData3') = 50000
          /\ ecgPatternIndexRef' = (p + 1) % len
          /\ len \in n .. n + 2
          /\ p < len]_vars

\* a whole beat with two pause samples, the position back at the beat start
C29_Witness ==
  /\ variant = "sim"
  /\ appState = "MONITORING"
  /\ arrhythmiaStateRef = NoArrhythmia
  /\ ecgPatternIndexRef = 0
  /\ beatVariationRef.beatLength = Len(ECG_PATTERN_1) + 2
  /\ beatVariationRef.amplitude # 1000
  /\ ecgData1 = <<50000 + (ECG_PATTERN_1[2] - 50) * beatVariationRef.amplitude,
                  50000, 50000>>

\* C30: the beat-cycle state changes only on a tick that finds the position
\* 0 and the arrhythmia state 'none' and triggers no PVC; such a tick sets
\* it to drawn values (amplitude within 5% of 1, beatLength the pattern
\* length plus 0, 1 or 2), and every other tick, those of a PVC episode
\* included, leaves it as it is.
DrawnBeats ==
  {[amplitude |-> 1000 + ((2 * a - RandDen) * 100) \div (2 * RandDen),
    beatLength |-> Len(ECG_PATTERN_1) + (l * 3) \div RandDen] : a \in RandDraws, l \in RandDraws}

BeatStartTick ==
  NormalTick /\ ecgPatternIndexRef = 0

C30_BeatCycleRedraw ==
  [][/\ beatVariationRef' # beatVariationRef => BeatStartTick
     /\ BeatStartTick => beatVariationRef' \in DrawnBeats
     /\ (updateVitalsAnyBeat /\ ~BeatStartTick) =>
          beatVariationRef' = beatVariationRef]_vars

\* inside a beat whose variation was drawn at its start
C30_Witness ==
  /\ variant = "sim"
  /\ appState = "MONITORING"
  /\ arrhythmiaStateRef = NoArrhythmia
  /\ ecgPatternIndexRef = 2
  /\ beatVariationRef.amplitude # 1000
  /\ beatVariationRef.beatLength = Len(ECG_PATTERN_1) + 2
  /\ Last(ecgData1) = 50000 + (ECG_PATTERN_1[2] - 50) * beatVariationRef.amplitude

\* C31: each window is a FIFO of capacity ECG_DATA_LENGTH: a call appends
\* its value, evicting the oldest sample exactly when the window was full,
\* so that a window always holds the most recent values pushed to its lead,
\* in the order of the calls, and never more than ECG_DATA_LENGTH of them.
PushedTo(lead) ==
  LET picked == SelectSeq(pushed, LAMBDA c : c[1] = lead)
  IN [i \in 1 .. Len(picked) |-> picked[i][2]]

MostRecent(values) ==
  IF Len(values) <= ECG_DATA_LENGTH THEN values
  ELSE SubSeq(values, Len(values) - ECG_DATA_LENGTH + 1, Len(values))

FifoStep(w1, w2) ==
  \/ w2 = w1
  \/ Len(w1) < ECG_DATA_LENGTH /\ w2 = Append(w1, Last(w2))
  \/ Len(w1) = ECG_DATA_LENGTH /\ w2 = Append(Tail(w1), Last(w2))

C31_SlidingWindow ==
  [][/\ FifoStep(ecgData1, ecgData1') /\ FifoStep(ecgData2, ecgData2')
     /\ FifoStep(ecgData3, ecgData3')
     /\ ecgData1' = MostRecent(PushedTo(1))'
     /\ ecgData2' = MostRecent(PushedTo(2))'
     /\ ecgData3' = MostRecent(PushedTo(3))'
     /\ Len(ecgData1') <= ECG_DATA_LENGTH]_vars

\* four values pushed to Lead I: the first one has been evicted
C31_Witness ==
  /\ pushed = <<<<1, 40000>>, <<1, 60000>>, <<1, 60000>>, <<1, 40000>>>>
  /\ ecgData1 = <<60000, 60000, 40000>>

\* C32: getSpo2Vital returns exactly 98 from the cold start, whatever the
\* draw; from any other value it returns a value of [min, max] that is at
\* most 4 * maxChange away from the current one.
C32_Spo2Step ==
  gen.fn = "getSpo2Vital" =>
    IF gen.current = 0 THEN gen.result = 98000
    ELSE /\ gen.result - gen.current <= 4 * gen.maxChange
         /\ gen.current - gen.result <= 4 * gen.maxChange
         /\ gen.min <= gen.result /\ gen.result <= gen.max

\* a full step downwards that the clamp does not cut
C32_Witness ==
  /\ gen.fn = "getSpo2Vital"
  /\ gen.current = 99000
  /\ gen.maxChange = 100
  /\ gen.r = 0
  /\ gen.result = 98600

\* C33: in every state of the simulator the beat position lies in
\* 0 .. beatLength - 1, beatLength is the pattern length plus 0, 1 or 2, the
\* PVC index lies in 0 .. PVC pattern length - 1, and the position is 0
\* whenever the arrhythmia state is 'pvc'.
C33_EcgEngineInvariant ==
  variant = "sim" =>
    /\ ecgPatternIndexRef \in 0 .. beatVariationRef.beatLength - 1
    /\ beatVariationRef.beatLength \in Len(ECG_PATTERN_1) .. Len(ECG_PATTERN_1) + 2
    /\ arrhythmiaStateRef.index \in 0 .. Len(PVC_PATTERN_1) - 1
    /\ arrhythmiaStateRef.type = "pvc" => ecgPatternIndexRef = 0

\* inside a PVC episode that follows a beat with two pause samples
C33_Witness ==
  /\ variant = "sim"
  /\ arrhythmiaStateRef = [type |-> "pvc", index |-> 1]
  /\ beatVariationRef.beatLength = Len(ECG_PATTERN_1) + 2
  /\ ecgData1 = <<50000, 50000, PVC_PATTERN_1[1] * 1000>>

\* C34: in the hardware variant, whenever the connection status is false
\* the port ref and the reader ref are null and the port is closed.
C34_NoHandleWhenDisconnected ==
  (variant = "hw" /\ ~isSerialConnected) =>
    (portRef = "null" /\ readerRef = "null" /\ ~portOpen)

\* C35: when the report is assembled, the snapshot it reads
\* (finalVitalsRef) equals the vitals state, and the report carries the
\* vitals state.
C35_ReportShowsCurrentVitals ==
  [][(analysisReport' # analysisReport /\ analysisReport' # NoReport) =>
        /\ finalVitalsRef = vitals
        /\ analysisReport'.heart_rate = toString(vitals.heartRate)
        /\ analysisReport'.spo2 = toFixed1(vitals.spo2)]_vars

\* C36: the data handed to the post-session pipeline is the data at the
\* moment the session left MONITORING: every inference request carries the
\* heart rate and the Lead-I window of that moment, and every report that is
\* assembled carries the heart rate of that moment.
C36_FrozenAtStop ==
  [][/\ \A p \in Pipes :
          (pipe'[p].req.sent /\ ~pipe[p].req.sent) =>
             /\ pipe'[p].req.heart_rate = atStop'.heartRate
             /\ pipe'[p].req.ecg_signal = atStop'.ecgData1
     /\ (analysisReport' # analysisReport /\ analysisReport' # NoReport) =>
             analysisReport'.heart_rate = toString(atStop'.heartRate)]_vars

\* C37: in COMPLETE the report is non-null and there are exactly three
\* captured images; in MONITORING the report is null and there are no
\* captured images.
C37_ReportAndImagesByState ==
  /\ appState = "COMPLETE" =>
        (analysisReport # NoReport /\ Len(ecgImages) = 3)
  /\ appState = "MONITORING" =>
        (analysisReport = NoReport /\ ecgImages = <<>>)

\* a completed session whose third capture threw: the list still has three
\* entries, alongside the report
C37_Witness ==
  /\ appState = "COMPLETE"
  /\ analysisReport # NoReport
  /\ Len(ecgImages) = 3
  /\ ecgImages[3] = "null"
  /\ chartRefs = <<TRUE, TRUE, TRUE>>

\* C38: in the hardware variant every step from READY to MONITORING is
\* taken in a state where the connection status is true, and the connect and
\* disconnect actions are taken only from a page that shows READY.
C38_StartOnlyWhenConnected ==
  [][/\ (variant = "hw" /\ appState = "READY" /\ appState' = "MONITORING") =>
          isSerialConnected
     /\ (connectSerial \/ disconnectSerial) =>
          (appState = "READY" /\ rendered.appState = "READY")]_vars

\* the requests of the report view that are still awaiting their response
PendingSends(m) == {i \in 1 .. Len(m.requests) : m.requests[i].st = "pending"}

\* C39: the send status moves only idle -> sending, sending -> sent,
\* sending -> error and error -> sending; a request is made only from idle
\* or error; at most one request is in flight; no request is made after
\* 'sent'; and a request that fails or gets a non-OK response leaves the
\* status at 'error'.
C39_SendStatusMachine ==
  [][/\ mail'.sendStatus # mail.sendStatus =>
          <<mail.sendStatus, mail'.sendStatus>> \in
             {<<"idle", "sending">>, <<"sending", "sent">>,
              <<"sending", "error">>, <<"error", "sending">>}
     /\ Len(mail'.requests) > Len(mail.requests) =>
          mail.sendStatus \in {"idle", "error"}
     /\ Cardinality(PendingSends(mail')) <= 1
     /\ mail.sendStatus = "sent" =>
          (mail'.sendStatus = "sent" /\ mail'.requests = mail.requests)
     /\ \A i \in PendingSends(mail) :
          mail'.requests[i].st \in {"notOk", "rejected"} =>
             mail'.sendStatus = "error"]_vars

\* a non-OK response, a retry that is rejected, a second retry that
\* succeeds, and the render of 'sent'
C39_Witness ==
  /\ Len(mail.requests) = 3
  /\ mail.requests[1].st = "notOk"
  /\ mail.requests[2].st = "rejected"
  /\ mail.requests[3].st = "ok"
  /\ mail.sendStatus = "sent"
  /\ mail.shown = "sent"

====
